---------------------------- MODULE Spec2Model ----------------------------
(***************************************************************************)
(* Model of the Android Camera2 capture filter                             *)
(* (android-camera2-capture.cpp).                                          *)
(*                                                                         *)
(* Two threads act on one AndroidCamera2Context d:                         *)
(*   - the host (filter hooks preprocess/process/postprocess and the       *)
(*     set_vsize method), whose bodies all run under ms_filter_lock;       *)
(*   - the image reader's callback thread                                  *)
(*     (android_camera2_capture_on_image_available), which reads           *)
(*     d->capturing before it takes the filter lock.                       *)
(* Platform calls (NDK camera, image reader) and the mediastreamer2        *)
(* library calls (frame rate controller, pixel conversion) are the         *)
(* environment: their success or failure is a nondeterministic input.      *)
(* A handle of the context is modelled by whether it is non-null.          *)
(***************************************************************************)
EXTENDS Integers, Sequences, FiniteSets, TLC

\* ------------------------------------------------------------------ bounds
\* Frames the converter may allocate in one run.
MaxFrames == 3
\* Size-change notifications the host may receive in one run.
MaxNotify == 2
\* Largest width or height of a platform stream configuration.
MaxDim == 3
\* Longest stream configuration list the negotiation is checked on.
MaxLen == 2
\* Ticks counted after a store.
MaxTicks == 2
\* Largest ticker time a tick may read.
MaxTime == 2
\* Eighths of a turn a rotation hint may reach, either way.
MaxTurns == 10
\* Longest camera list the enumeration is checked on.
MaxCameras == 4

\* -------------------------------------------------------------- constants
\* The context's captureFormat, set once by the constructor.
CaptureFormat == "AIMAGE_FORMAT_YUV_420_888"
\* Another image format the platform may list or deliver.
OtherFormat == "AIMAGE_FORMAT_JPEG"
Formats == {CaptureFormat, OtherFormat}

NoFrame == 0
Frames == 1..MaxFrames
\* Values of f->ticker->time that process() may read.
Times == 1..MaxTime

\* MSVideoSize as <<width, height>>.
Width(s) == s[1]
Height(s) == s[2]
ZeroSize == <<0, 0>>

VARIABLES
    d,            \* the AndroidCamera2Context fields
    ticker,       \* f->ticker is non-null (the filter is attached to a ticker)
    scaler,       \* ACAMERA_SCALER_AVAILABLE_STREAM_CONFIGURATIONS of the device
    filterLock,   \* owner of ms_filter_lock(f): "free", "host" or "cb"
    mutex,        \* owner of d->mutex: "free", "host" or "cb"
    hpc,          \* host thread position
    hop,          \* hook or method the host is running ("none" between calls)
    cpc,          \* callback thread position
    m,            \* the callback's local mblk_t *m (NoFrame when null)
    nextId,       \* identity of the next frame the converter allocates
    outq,         \* f->outputs[0]: frames put on the output queue, in order
    freed,        \* freemsg calls per frame
    notified,     \* MS_CAMERA_PREVIEW_SIZE_CHANGED notifications, in order
    ret,          \* <<return value>> of the last set_vsize (<< >> before any)
    fnHist,       \* the last two of start()/stop() that were called
    lastStored,   \* the frame most recently stored in d->frame
    cbOutcome,    \* how the last image-available callback ended
    requestedSize, \* set_vsize's local requestedSize (ZeroSize outside it)
    ticksSince,   \* process() calls since the last store, up to MaxTicks
    crashed,      \* the process faulted on a null pointer dereference
    released,     \* what the stop() of the running hook released, in order
    time,         \* f->ticker->time as the step just taken read it, or 0
    stamp,        \* timestamp the step just taken set on a frame, or 0
    device,       \* the AndroidCamera2Device that d->device points to
    out,          \* what get_vsize or the conversion last produced
    cameraIdList, \* the platform's camera list that detect() enumerates
    webcams       \* the cameras of the MSWebCamManager, head first

\* State that only the orientation methods and detect() read or write.
aside == <<device, out, cameraIdList, webcams>>

vars == <<d, ticker, scaler, filterLock, mutex, hpc, hop, cpc, m, nextId, outq,
          freed, notified, ret, fnHist, lastStored, cbOutcome, requestedSize,
          ticksSince, crashed, released, time, stamp, aside>>

\* The resource handles of the context, in declaration order.
Handles == {"cameraDevice", "captureSession", "captureSessionOutputContainer",
            "captureWindow", "captureRequest", "cameraCaptureOutputTarget",
            "sessionCaptureOutput", "imageReader"}

\* AndroidCamera2Context::AndroidCamera2Context; device is bound afterwards by
\* android_camera2_capture_create_reader, or never when the filter is created
\* from its registered description alone.
NewContext(bound) ==
    [ capturing |-> FALSE,
      device |-> bound,
      rotation |-> 0,
      captureSize |-> ZeroSize,
      frame |-> NoFrame,
      cameraDevice |-> FALSE,
      captureSession |-> FALSE,
      captureSessionOutputContainer |-> FALSE,
      captureWindow |-> FALSE,
      captureRequest |-> FALSE,
      cameraCaptureOutputTarget |-> FALSE,
      sessionCaptureOutput |-> FALSE,
      imageReader |-> FALSE ]

\* ------------------------------------------------ resolution negotiation
Abs(x) == IF x < 0 THEN 0 - x ELSE x

\* One entry of the stream configuration list: scaler.data.i32[i .. i+3].
ScalerEntry(format, width, height, input) ==
    [format |-> format, width |-> width, height |-> height, input |-> input]

\* Line 488 with <= for <: a later candidate at the same distance wins.
CloserThanBackup_OrEqual(askedRatio, currentSizeRatio, backupRatio) ==
    \/ backupRatio = 0
    \/ Abs(askedRatio - currentSizeRatio) <= Abs(askedRatio - backupRatio)

\* The test that replaces the backup size (line 488).
CloserThanBackup(askedRatio, currentSizeRatio, backupRatio) ==
    \/ backupRatio = 0
    \/ Abs(askedRatio - currentSizeRatio) < Abs(askedRatio - backupRatio)

\* The loop of android_camera2_capture_choose_best_configurations from entry i
\* on, carrying the locals found and backupSize.
RECURSIVE ScanConfigurations(_, _, _, _, _)
ScanConfigurations(sc, i, size, found, backupSize) ==
    IF i > Len(sc) THEN [found |-> found, backupSize |-> backupSize]
    ELSE IF sc[i].input THEN ScanConfigurations(sc, i + 1, size, found, backupSize)
    ELSE IF sc[i].format # CaptureFormat
         THEN ScanConfigurations(sc, i + 1, size, found, backupSize)
    ELSE IF sc[i].width = Width(size) /\ sc[i].height = Height(size)
         THEN ScanConfigurations(sc, i + 1, size, TRUE, backupSize)
    ELSE IF CloserThanBackup(Width(size) * Height(size),
                             sc[i].width * sc[i].height,
                             Width(backupSize) * Height(backupSize))
         THEN ScanConfigurations(sc, i + 1, size, found,
                                 <<sc[i].width, sc[i].height>>)
    ELSE ScanConfigurations(sc, i + 1, size, found, backupSize)

\* choose_best_configurations without lines 501-502 when no backup was seen:
\* the requested size stays in the context.
ChooseBestConfigurations_KeepsRequested(size, sc) ==
    LET r == ScanConfigurations(sc, 1, size, FALSE, ZeroSize)
    IN  IF r.found \/ r.backupSize = ZeroSize THEN size ELSE r.backupSize

\* android_camera2_capture_choose_best_configurations: the captureSize it
\* leaves in the context, given the captureSize it finds there.
ChooseBestConfigurations(size, sc) ==
    LET r == ScanConfigurations(sc, 1, size, FALSE, ZeroSize)
    IN  IF r.found THEN size ELSE r.backupSize

\* ------------------------------------------------------------ orientation
\* AndroidCamera2Device: the camera id, the sensor orientation and the facing.
Device(camId, orientation, back_facing) ==
    [camId |-> camId, orientation |-> orientation, back_facing |-> back_facing]

\* The % of C on int32_t: the quotient is truncated towards zero, so the
\* remainder has the sign of a.
CRem(a, b) == IF a >= 0 THEN a % b ELSE 0 - ((0 - a) % b)

\* android_camera2_capture_get_orientation.
GetOrientation(dev, rotation) ==
    LET turned == IF dev.back_facing THEN dev.orientation - rotation
                  ELSE dev.orientation + rotation
        raised == IF turned < 0 THEN turned + 360 ELSE turned
    IN  CRem(raised, 360)

\* Lines 162-166 with the test orientation == 90: a quarter turn the other
\* way is left unswapped.
ImageToMblktSize_Only90(size, orientation) ==
    IF orientation = 90 THEN <<Height(size), Width(size)>> ELSE size

\* android_camera2_capture_image_to_mblkt, lines 158-166: the width and
\* height of the converted frame for an image of the given size.
ImageToMblktSize(size, orientation) ==
    IF CRem(orientation, 180) # 0 THEN <<Height(size), Width(size)>> ELSE size

\* android_camera2_capture_get_vsize: the size written through arg.
GetVsizeSize(size, orientation) ==
    IF CRem(orientation, 180) = 0 THEN size ELSE <<Height(size), Width(size)>>

\* ------------------------------------------------------------ enumeration
\* One camera of the platform's list: ACameraManager_getCameraCharacteristics
\* either fails, or yields ACAMERA_LENS_FACING and ACAMERA_SENSOR_ORIENTATION.
Camera(facing, orientation) ==
    [status |-> "ACAMERA_OK", facing |-> facing, orientation |-> orientation]
FailedCamera ==
    [status |-> "ACAMERA_ERROR", facing |-> "unread", orientation |-> 0]

\* Line 667 with the camera added at the tail of the manager's list.
PrependCam_Appends(cams, cam) == Append(cams, cam)

\* ms_web_cam_manager_prepend_cam: the camera becomes the head of the list.
PrependCam(cams, cam) == <<cam>> \o cams

\* The loop of android_camera2_capture_detect from camera i on, carrying the
\* manager's list and the locals front_facing_found and back_facing_found.
\* The camera id is its place in the list.
RECURSIVE DetectFrom(_, _, _, _, _)
DetectFrom(ids, i, cams, front_facing_found, back_facing_found) ==
    IF i > Len(ids) THEN cams
    ELSE IF ids[i].status # "ACAMERA_OK"
         THEN DetectFrom(ids, i + 1, cams, front_facing_found, back_facing_found)
    ELSE LET back_facing == ids[i].facing = "ACAMERA_LENS_FACING_BACK"
             dev == Device(i, ids[i].orientation, back_facing)
         IN  IF \/ back_facing /\ ~back_facing_found
                \/ ~back_facing /\ ~front_facing_found
             THEN DetectFrom(ids, i + 1, PrependCam(cams, dev),
                             IF back_facing THEN front_facing_found ELSE TRUE,
                             IF back_facing THEN TRUE ELSE back_facing_found)
             ELSE DetectFrom(ids, i + 1, cams, front_facing_found,
                             back_facing_found)

\* android_camera2_capture_detect on a list that was obtained: the manager's
\* list it leaves.
DetectCameras(ids, cams) ==
    IF Len(ids) < 1 THEN cams ELSE DetectFrom(ids, 1, cams, FALSE, FALSE)

\* ------------------------------------------------------------ start, stop
\* android_camera2_capture_open_camera.
OpenCamera(c, openOk) ==
    IF ~c.device THEN c
    ELSE IF ~openOk THEN c
    ELSE [c EXCEPT !.cameraDevice = TRUE]

\* android_camera2_capture_start from line 285 on (past the two early
\* returns). No capture session is ever created, so captureSession stays as
\* it is and setRepeatingRequest acts on a null session.
StartSession(c, readerOk, windowOk, requestOk) ==
    LET c1 == [c EXCEPT !.captureSessionOutputContainer = TRUE] IN
    IF ~readerOk THEN c1
    ELSE LET c2 == [c1 EXCEPT !.imageReader = TRUE] IN
    IF ~windowOk THEN c2
    ELSE [c2 EXCEPT !.captureWindow = TRUE,
                    !.cameraCaptureOutputTarget = TRUE,
                    !.captureRequest = IF c2.cameraDevice /\ requestOk
                                       THEN TRUE ELSE c2.captureRequest,
                    !.sessionCaptureOutput = TRUE,
                    !.capturing = TRUE]

\* The handles start() acquires, in the order of its calls: open_camera,
\* then lines 285, 291, 303, 311, 312 and 318.
AcquisitionOrder ==
    <<"cameraDevice", "captureSessionOutputContainer", "imageReader",
      "captureWindow", "cameraCaptureOutputTarget", "captureRequest",
      "sessionCaptureOutput">>

\* Start without the test of lines 272-275.
Start_NoSizeCheck(c, openOk, readerOk, windowOk, requestOk) ==
    IF c.capturing THEN c
    ELSE StartSession(IF ~c.cameraDevice THEN OpenCamera(c, openOk) ELSE c,
                      readerOk, windowOk, requestOk)

\* android_camera2_capture_start.
Start(c, openOk, readerOk, windowOk, requestOk) ==
    IF Width(c.captureSize) = 0 \/ Height(c.captureSize) = 0 THEN c
    ELSE IF c.capturing THEN c
    ELSE StartSession(IF ~c.cameraDevice THEN OpenCamera(c, openOk) ELSE c,
                      readerOk, windowOk, requestOk)

\* A step that stamps no frame: it is not the body of line 409.
NoTick == time' = 0 /\ stamp' = 0

\* Record a call of start() or stop() in the two-call history.
Called(fn) == <<fnHist[2], fn>>

\* -------------------------------------------------------------- host hooks
HostIdle == ~crashed /\ hpc = "idle" /\ filterLock = "free"

\* The host attaches the filter to a ticker (f->ticker is set) and calls
\* android_camera2_capture_preprocess.
Preprocess(openOk, readerOk, windowOk, requestOk) ==
    /\ HostIdle
    /\ ~ticker
    /\ ticker' = TRUE
    /\ IF Width(d.captureSize) # 0 /\ Height(d.captureSize) # 0 /\ ~d.capturing
       THEN /\ d' = Start(d, openOk, readerOk, windowOk, requestOk)
            /\ fnHist' = Called("start")
       ELSE UNCHANGED <<d, fnHist>>
    /\ NoTick
    /\ UNCHANGED <<scaler, released, aside, filterLock, mutex, hpc, hop, cpc,
                   m, nextId, outq, freed, notified, ret, lastStored,
                   cbOutcome, crashed, requestedSize, ticksSince>>

\* android_camera2_capture_process, line 406: a tick of the filter's ticker
\* begins by taking the filter lock.
ProcessBegin ==
    /\ HostIdle
    /\ ticker
    /\ filterLock' = "host"
    /\ hop' = "process"
    /\ hpc' = "lock_mutex"
    /\ NoTick
    /\ UNCHANGED <<d, ticker, scaler, released, aside, mutex, cpc, m, nextId,
                   outq, freed, notified, ret, fnHist, lastStored, cbOutcome,
                   crashed, requestedSize, ticksSince>>

\* ProcessMutexLock without line 408: the tick drains without the mutex.
ProcessMutexLock_NoLock ==
    /\ ~crashed
    /\ hpc = "lock_mutex"
    /\ hpc' = "drain"
    /\ NoTick
    /\ UNCHANGED <<d, ticker, scaler, released, aside, filterLock, mutex, hop,
                   cpc, m, nextId, outq, freed, notified, ret, fnHist,
                   lastStored, cbOutcome, crashed, requestedSize, ticksSince>>

\* Line 408: ms_mutex_lock(&d->mutex), with the filter lock held.
ProcessMutexLock ==
    /\ ~crashed
    /\ hpc = "lock_mutex"
    /\ mutex = "free"
    /\ mutex' = "host"
    /\ hpc' = "drain"
    /\ NoTick
    /\ UNCHANGED <<d, ticker, scaler, released, aside, filterLock, hop, cpc,
                   m, nextId, outq, freed, notified, ret, fnHist, lastStored,
                   cbOutcome, crashed, requestedSize, ticksSince>>

\* Process without line 413: the frame is enqueued and stays in the slot.
Process_KeepsFrame ==
    /\ ~crashed
    /\ hpc = "drain"
    /\ mutex' = "free"
    /\ filterLock' = "free"
    /\ hpc' = "idle"
    /\ hop' = "none"
    /\ IF d.frame # NoFrame
       THEN /\ outq' = Append(outq, d.frame)
            /\ \E t \in Times : time' = t /\ stamp' = t * 90
       ELSE NoTick /\ UNCHANGED outq
    /\ ticksSince' = IF ticksSince < MaxTicks THEN ticksSince + 1 ELSE MaxTicks
    /\ UNCHANGED <<d, ticker, scaler, released, aside, cpc, m, nextId, freed,
                   notified, ret, fnHist, lastStored, cbOutcome, crashed,
                   requestedSize>>

\* Process with line 411 passing f->ticker->time unscaled.
Process_StampsTime ==
    /\ ~crashed
    /\ hpc = "drain"
    /\ mutex' = "free"
    /\ filterLock' = "free"
    /\ hpc' = "idle"
    /\ hop' = "none"
    /\ IF d.frame # NoFrame
       THEN /\ outq' = Append(outq, d.frame)
            /\ \E t \in Times : time' = t /\ stamp' = t
            /\ d' = [d EXCEPT !.frame = NoFrame]
       ELSE NoTick /\ UNCHANGED <<d, outq>>
    /\ ticksSince' = IF ticksSince < MaxTicks THEN ticksSince + 1 ELSE MaxTicks
    /\ UNCHANGED <<ticker, scaler, released, aside, cpc, m, nextId, freed,
                   notified, ret, fnHist, lastStored, cbOutcome, crashed,
                   requestedSize>>

\* android_camera2_capture_process, lines 409-417: the drain of the slot and
\* the release of the mutex, then of the filter lock. With a frame pending
\* it reads f->ticker->time, here t.
Process ==
    /\ ~crashed
    /\ hpc = "drain"
    /\ mutex' = "free"
    /\ filterLock' = "free"
    /\ hpc' = "idle"
    /\ hop' = "none"
    /\ IF d.frame # NoFrame
       THEN /\ outq' = Append(outq, d.frame)
            /\ \E t \in Times : time' = t /\ stamp' = t * 90
            /\ d' = [d EXCEPT !.frame = NoFrame]
       ELSE NoTick /\ UNCHANGED <<d, outq>>
    /\ ticksSince' = IF ticksSince < MaxTicks THEN ticksSince + 1 ELSE MaxTicks
    /\ UNCHANGED <<ticker, scaler, released, aside, cpc, m, nextId, freed,
                   notified, ret, fnHist, lastStored, cbOutcome, crashed,
                   requestedSize>>

\* android_camera2_capture_postprocess up to its call of stop().
PostprocessBegin ==
    /\ HostIdle
    /\ ticker
    /\ filterLock' = "host"
    /\ hop' = "postprocess"
    /\ hpc' = IF d.capturing THEN "stop" ELSE "ret"
    /\ NoTick
    /\ UNCHANGED <<d, ticker, scaler, released, aside, mutex, cpc, m, nextId,
                   outq, freed, notified, ret, fnHist, lastStored, cbOutcome,
                   crashed, requestedSize, ticksSince>>

\* android_camera2_capture_postprocess after stop(): the lock is released,
\* and the host detaches the filter (f->ticker is cleared).
PostprocessEnd ==
    /\ ~crashed
    /\ hpc = "ret"
    /\ hop = "postprocess"
    /\ filterLock' = "free"
    /\ hpc' = "idle"
    /\ hop' = "none"
    /\ ticker' = FALSE
    /\ released' = << >>
    /\ NoTick
    /\ UNCHANGED <<d, scaler, aside, mutex, cpc, m, nextId, outq, freed,
                   notified, ret, fnHist, lastStored, cbOutcome, crashed,
                   requestedSize, ticksSince>>

\* android_camera2_capture_uninit, on a filter that is not attached to a
\* ticker: the context is deleted. The destructor releases neither d->frame
\* nor any handle, so d keeps what the freed memory held.
Uninit ==
    /\ HostIdle
    /\ ~ticker
    /\ hpc' = "uninit"
    /\ hop' = "uninit"
    /\ NoTick
    /\ UNCHANGED <<d, ticker, scaler, released, aside, filterLock, mutex, cpc,
                   m, nextId, outq, freed, notified, ret, fnHist, lastStored,
                   cbOutcome, crashed, requestedSize, ticksSince>>

\* SetVsizeBegin without the comparison of lines 515-518.
SetVsizeBegin_NoCompare(requested) ==
    /\ HostIdle
    /\ Len(notified) < MaxNotify
    /\ d' = [d EXCEPT !.captureSize = requested]
    /\ requestedSize' = requested
    /\ filterLock' = "host"
    /\ hop' = "set_vsize"
    /\ hpc' = "stop"
    /\ NoTick
    /\ UNCHANGED <<ticker, scaler, released, aside, mutex, cpc, m, nextId,
                   outq, freed, ret, notified, fnHist, lastStored, cbOutcome,
                   crashed, ticksSince>>

\* android_camera2_capture_set_vsize up to its call of stop().
SetVsizeBegin(requested) ==
    /\ HostIdle
    /\ Len(notified) < MaxNotify
    /\ IF d.captureSize = requested
       THEN /\ ret' = <<-1>>
            /\ UNCHANGED <<d, filterLock, hpc, hop, requestedSize>>
       ELSE /\ d' = [d EXCEPT !.captureSize = requested]
            /\ requestedSize' = requested
            /\ filterLock' = "host"
            /\ hop' = "set_vsize"
            /\ hpc' = "stop"
            /\ UNCHANGED ret
    /\ NoTick
    /\ UNCHANGED <<ticker, scaler, released, aside, mutex, cpc, m, nextId,
                   outq, freed, notified, fnHist, lastStored, cbOutcome,
                   crashed, ticksSince>>

\* SetVsizeEnd with line 525 passing requestedSize: the host is told the
\* size it asked for, not the negotiated one.
SetVsizeEnd_NotifiesRequested(openOk, readerOk, windowOk, requestOk) ==
    /\ ~crashed
    /\ hpc = "ret"
    /\ hop = "set_vsize"
    /\ d.device
    /\ d' = Start([d EXCEPT !.captureSize =
                       ChooseBestConfigurations(d.captureSize, scaler)],
                  openOk, readerOk, windowOk, requestOk)
    /\ fnHist' = Called("start")
    /\ notified' = Append(notified, requestedSize)
    /\ ret' = <<0>>
    /\ filterLock' = "free"
    /\ hpc' = "idle"
    /\ hop' = "none"
    /\ requestedSize' = ZeroSize
    /\ released' = << >>
    /\ NoTick
    /\ UNCHANGED <<ticker, scaler, aside, mutex, cpc, m, nextId, outq, freed,
                   lastStored, cbOutcome, ticksSince, crashed>>

\* android_camera2_capture_set_vsize after stop(): negotiation, start() and
\* the notification. Without a bound device choose_best_configurations reads
\* d->device->camId through a null pointer.
SetVsizeEnd(openOk, readerOk, windowOk, requestOk) ==
    /\ ~crashed
    /\ hpc = "ret"
    /\ hop = "set_vsize"
    /\ IF ~d.device
       THEN /\ crashed' = TRUE
            /\ UNCHANGED <<d, filterLock, hpc, hop, notified, ret, fnHist,
                           requestedSize, released>>
       ELSE /\ d' = Start([d EXCEPT !.captureSize =
                               ChooseBestConfigurations(d.captureSize, scaler)],
                          openOk, readerOk, windowOk, requestOk)
            /\ fnHist' = Called("start")
            /\ notified' = Append(notified, d'.captureSize)
            /\ ret' = <<0>>
            /\ filterLock' = "free"
            /\ hpc' = "idle"
            /\ hop' = "none"
            /\ requestedSize' = ZeroSize
            /\ released' = << >>
            /\ UNCHANGED crashed
    /\ NoTick
    /\ UNCHANGED <<ticker, scaler, aside, mutex, cpc, m, nextId, outq, freed,
                   lastStored, cbOutcome, ticksSince>>

\* ------------------------------------------------------------------- stop
\* StopEnter without line 334: the flag is still set while stop() releases.
StopEnter_KeepsFlag ==
    /\ ~crashed
    /\ hpc = "stop"
    /\ fnHist' = Called("stop")
    /\ hpc' = IF ~d.capturing THEN "ret" ELSE "stop_session"
    /\ released' = << >>
    /\ NoTick
    /\ UNCHANGED <<d, ticker, scaler, aside, filterLock, mutex, hop, cpc, m,
                   nextId, outq, freed, notified, ret, lastStored, cbOutcome,
                   crashed, requestedSize, ticksSince>>

\* android_camera2_capture_stop, lines 329-334: the early return and the
\* clearing of the flag.
StopEnter ==
    /\ ~crashed
    /\ hpc = "stop"
    /\ fnHist' = Called("stop")
    /\ IF ~d.capturing
       THEN /\ hpc' = "ret"
            /\ UNCHANGED d
       ELSE /\ d' = [d EXCEPT !.capturing = FALSE]
            /\ hpc' = "stop_session"
    /\ released' = << >>
    /\ NoTick
    /\ UNCHANGED <<ticker, scaler, aside, filterLock, mutex, hop, cpc, m,
                   nextId, outq, freed, notified, ret, lastStored, cbOutcome,
                   crashed, requestedSize, ticksSince>>

\* One guarded release of stop(): at position `at`, the handle `h` is
\* released if it is set, and stop() moves on to position `to`.
Release(at, h, to) ==
    /\ ~crashed
    /\ hpc = at
    /\ d' = [d EXCEPT ![h] = FALSE]
    /\ released' = IF d[h] THEN Append(released, h) ELSE released
    /\ hpc' = to
    /\ NoTick
    /\ UNCHANGED <<ticker, scaler, aside, filterLock, mutex, hop, cpc, m,
                   nextId, outq, freed, notified, ret, fnHist, lastStored,
                   cbOutcome, crashed, requestedSize, ticksSince>>

StopSession == Release("stop_session", "captureSession", "stop_target")

\* Lines 342-345 releasing the native window in place of the output target.
StopTarget_ReleasesWindow ==
    Release("stop_target", "captureWindow", "stop_request")

StopTarget == Release("stop_target", "cameraCaptureOutputTarget", "stop_request")
StopRequest == Release("stop_request", "captureRequest", "stop_remove")

\* Lines 352-354: the session output is removed from the container; no
\* handle of the context changes.
StopRemove ==
    /\ ~crashed
    /\ hpc = "stop_remove"
    /\ released' = IF d.captureSessionOutputContainer
                   THEN Append(released, "remove") ELSE released
    /\ hpc' = "stop_output"
    /\ NoTick
    /\ UNCHANGED <<d, ticker, scaler, aside, filterLock, mutex, hop, cpc, m,
                   nextId, outq, freed, notified, ret, fnHist, lastStored,
                   cbOutcome, crashed, requestedSize, ticksSince>>

StopOutput == Release("stop_output", "sessionCaptureOutput", "stop_window")

\* Lines 361-364 freeing the output container in place of the native window.
StopWindow_ReleasesContainer ==
    Release("stop_window", "captureSessionOutputContainer", "stop_reader")

StopWindow == Release("stop_window", "captureWindow", "stop_reader")
StopReader == Release("stop_reader", "imageReader", "stop_container")
StopContainer ==
    Release("stop_container", "captureSessionOutputContainer", "stop_device")

\* close_camera without line 264: the device is closed, its handle kept.
CloseCamera_KeepsHandle ==
    /\ ~crashed
    /\ hpc = "stop_device"
    /\ hpc' = "ret"
    /\ NoTick
    /\ UNCHANGED <<d, ticker, scaler, released, aside, filterLock, mutex, hop,
                   cpc, m, nextId, outq, freed, notified, ret, fnHist,
                   lastStored, cbOutcome, crashed, requestedSize, ticksSince>>

\* android_camera2_capture_close_camera, the last step of stop().
CloseCamera == Release("stop_device", "cameraDevice", "ret")

\* ------------------------------------------- image-available callback
\* Lines 191-196: the format test and AImageReader_acquireNextImage. The
\* reader invokes its listener, so a callback begins only while a reader
\* exists; one that has begun runs on whatever stop() does meanwhile.
CbDeliver(format, acquireOk) ==
    /\ ~crashed
    /\ cpc = "idle"
    /\ d.imageReader
    /\ nextId <= MaxFrames
    /\ IF format # CaptureFormat
       THEN cbOutcome' = "wrong_format" /\ UNCHANGED cpc
       ELSE IF ~acquireOk
       THEN cbOutcome' = "acquire_failed" /\ UNCHANGED cpc
       ELSE cbOutcome' = "pending" /\ cpc' = "acquired"
    /\ NoTick
    /\ UNCHANGED <<d, ticker, scaler, released, aside, filterLock, mutex, hpc,
                   hop, m, nextId, outq, freed, notified, ret, fnHist,
                   lastStored, crashed, requestedSize, ticksSince>>

\* Line 197: d->capturing is read before the filter lock is taken.
CbReadCapturing ==
    /\ ~crashed
    /\ cpc = "acquired"
    /\ IF d.capturing
       THEN cpc' = "wait_lock" /\ UNCHANGED cbOutcome
       ELSE cpc' = "idle" /\ cbOutcome' = "not_capturing"
    /\ NoTick
    /\ UNCHANGED <<d, ticker, scaler, released, aside, filterLock, mutex, hpc,
                   hop, m, nextId, outq, freed, notified, ret, fnHist,
                   lastStored, crashed, requestedSize, ticksSince>>

\* CbFilterLock without line 198: the callback goes on without the lock.
CbFilterLock_NoLock ==
    /\ ~crashed
    /\ cpc = "wait_lock"
    /\ cpc' = "locked"
    /\ NoTick
    /\ UNCHANGED <<d, ticker, scaler, released, aside, filterLock, mutex, hpc,
                   hop, m, nextId, outq, freed, notified, ret, fnHist,
                   lastStored, cbOutcome, crashed, requestedSize, ticksSince>>

\* Line 198: ms_filter_lock(d->filter).
CbFilterLock ==
    /\ ~crashed
    /\ cpc = "wait_lock"
    /\ filterLock = "free"
    /\ filterLock' = "cb"
    /\ cpc' = "locked"
    /\ NoTick
    /\ UNCHANGED <<d, ticker, scaler, released, aside, mutex, hpc, hop, m,
                   nextId, outq, freed, notified, ret, fnHist, lastStored,
                   cbOutcome, crashed, requestedSize, ticksSince>>

\* Lines 200-206: d->filter is never null, so the guard of line 200 is false
\* and d->filter->ticker->time is read; then the frame rate controller (a
\* library call) admits the frame or not.
CbNewFrame(admit) ==
    /\ ~crashed
    /\ cpc = "locked"
    /\ IF ~ticker
       THEN crashed' = TRUE /\ UNCHANGED <<cpc, cbOutcome>>
       ELSE IF admit
       THEN cpc' = "convert" /\ UNCHANGED <<cbOutcome, crashed>>
       ELSE cpc' = "unlock" /\ cbOutcome' = "fps_skip" /\ UNCHANGED crashed
    /\ NoTick
    /\ UNCHANGED <<d, ticker, scaler, released, aside, filterLock, mutex, hpc,
                   hop, m, nextId, outq, freed, notified, ret, fnHist,
                   lastStored, requestedSize, ticksSince>>

\* CbConvert without the test of line 208: a null m is stored like a frame,
\* after the pending frame was freed.
CbConvert_StoresNull(convertOk) ==
    /\ ~crashed
    /\ cpc = "convert"
    /\ IF convertOk
       THEN /\ m' = nextId
            /\ nextId' = nextId + 1
            /\ cpc' = "lock_mutex"
            /\ UNCHANGED <<cbOutcome, d, freed>>
       ELSE /\ cpc' = "unlock"
            /\ cbOutcome' = "convert_null"
            /\ freed' = IF d.frame # NoFrame
                        THEN [freed EXCEPT ![d.frame] = @ + 1] ELSE freed
            /\ d' = [d EXCEPT !.frame = NoFrame]
            /\ UNCHANGED <<m, nextId>>
    /\ NoTick
    /\ UNCHANGED <<ticker, scaler, released, aside, filterLock, mutex, hpc,
                   hop, outq, notified, ret, fnHist, lastStored, crashed,
                   requestedSize, ticksSince>>

\* Line 207: android_camera2_capture_image_to_mblkt, which allocates a new
\* frame or returns null.
CbConvert(convertOk) ==
    /\ ~crashed
    /\ cpc = "convert"
    /\ IF convertOk
       THEN /\ m' = nextId
            /\ nextId' = nextId + 1
            /\ cpc' = "lock_mutex"
            /\ UNCHANGED cbOutcome
       ELSE /\ cpc' = "unlock"
            /\ cbOutcome' = "convert_null"
            /\ UNCHANGED <<m, nextId>>
    /\ NoTick
    /\ UNCHANGED <<d, ticker, scaler, released, aside, filterLock, mutex, hpc,
                   hop, outq, freed, notified, ret, fnHist, lastStored,
                   crashed, requestedSize, ticksSince>>

\* Line 209: ms_mutex_lock(&d->mutex).
CbMutexLock ==
    /\ ~crashed
    /\ cpc = "lock_mutex"
    /\ mutex = "free"
    /\ mutex' = "cb"
    /\ cpc' = "store"
    /\ NoTick
    /\ UNCHANGED <<d, ticker, scaler, released, aside, filterLock, hpc, hop,
                   m, nextId, outq, freed, notified, ret, fnHist, lastStored,
                   cbOutcome, crashed, requestedSize, ticksSince>>

\* CbStore without line 210: the pending frame is overwritten, not freed.
CbStore_NoFree ==
    /\ ~crashed
    /\ cpc = "store"
    /\ d' = [d EXCEPT !.frame = m]
    /\ lastStored' = m
    /\ m' = NoFrame
    /\ mutex' = "free"
    /\ cpc' = "unlock"
    /\ cbOutcome' = "stored"
    /\ ticksSince' = 0
    /\ NoTick
    /\ UNCHANGED <<ticker, scaler, released, aside, filterLock, hpc, hop,
                   nextId, outq, notified, ret, fnHist, crashed,
                   requestedSize, freed>>

\* Lines 210-212: the pending frame, if any, is freed and replaced.
CbStore ==
    /\ ~crashed
    /\ cpc = "store"
    /\ freed' = IF d.frame # NoFrame
                THEN [freed EXCEPT ![d.frame] = @ + 1] ELSE freed
    /\ d' = [d EXCEPT !.frame = m]
    /\ lastStored' = m
    /\ m' = NoFrame
    /\ mutex' = "free"
    /\ cpc' = "unlock"
    /\ cbOutcome' = "stored"
    /\ ticksSince' = 0
    /\ NoTick
    /\ UNCHANGED <<ticker, scaler, released, aside, filterLock, hpc, hop,
                   nextId, outq, notified, ret, fnHist, crashed,
                   requestedSize>>

\* A callback that runs, or an image that the reader delivers, after uninit
\* reads the deleted context. It may go on as if the memory were intact,
\* which the steps above cover, or fault, which is this step.
CbUseAfterFree ==
    /\ ~crashed
    /\ hpc = "uninit"
    /\ cpc # "idle" \/ d.imageReader
    /\ crashed' = TRUE
    /\ NoTick
    /\ UNCHANGED <<d, ticker, scaler, released, aside, filterLock, mutex, hpc,
                   hop, cpc, m, nextId, outq, freed, notified, ret, fnHist,
                   lastStored, cbOutcome, requestedSize, ticksSince>>

\* Lines 216-219: ms_filter_unlock and AImage_delete.
CbUnlock ==
    /\ ~crashed
    /\ cpc = "unlock"
    /\ filterLock' = "free"
    /\ cpc' = "idle"
    /\ NoTick
    /\ UNCHANGED <<d, ticker, scaler, released, aside, mutex, hpc, hop, m,
                   nextId, outq, freed, notified, ret, fnHist, lastStored,
                   cbOutcome, crashed, requestedSize, ticksSince>>

\* ------------------------------------------------------ the specification
\* Sizes the host asks for.
RequestedSizes == {ZeroSize, <<2, 2>>, <<3, 3>>}

\* Stream configuration lists the platform reports for the bound device:
\* one with an exact match for 2x2 and none for 3x3, and one with no output
\* configuration in the capture format.
SomeConfigurations ==
    << ScalerEntry(CaptureFormat, 2, 2, FALSE),
       ScalerEntry(OtherFormat, 3, 3, FALSE),
       ScalerEntry(CaptureFormat, 3, 2, FALSE),
       ScalerEntry(CaptureFormat, 3, 3, TRUE) >>
NoConfigurations == << ScalerEntry(OtherFormat, 3, 3, FALSE) >>
Scalers == {SomeConfigurations, NoConfigurations}

\* Nothing was asked of get_vsize or of the conversion yet.
NoOutput == [op |-> "none", rotation |-> 0, orientation |-> 0, size |-> ZeroSize]

\* android_camera2_capture_init, then the device binding of create_reader.
Init ==
    /\ d \in {NewContext(bound) : bound \in BOOLEAN}
    /\ ticker = FALSE
    /\ scaler \in Scalers
    /\ filterLock = "free"
    /\ mutex = "free"
    /\ hpc = "idle"
    /\ hop = "none"
    /\ cpc = "idle"
    /\ m = NoFrame
    /\ nextId = 1
    /\ outq = << >>
    /\ freed = [f \in Frames |-> 0]
    /\ notified = << >>
    /\ ret = << >>
    /\ fnHist = <<"none", "none">>
    /\ lastStored = NoFrame
    /\ cbOutcome = "none"
    /\ requestedSize = ZeroSize
    /\ ticksSince = 0
    /\ crashed = FALSE
    /\ released = << >>
    /\ time = 0
    /\ stamp = 0
    /\ device = Device(1, 90, TRUE)
    /\ out = NoOutput
    /\ cameraIdList = << >>
    /\ webcams = << >>

Stop ==
    \/ StopEnter
    \/ StopSession
    \/ StopTarget
    \/ StopRequest
    \/ StopRemove
    \/ StopOutput
    \/ StopWindow
    \/ StopReader
    \/ StopContainer
    \/ CloseCamera

Host ==
    \/ \E openOk, readerOk, windowOk, requestOk \in BOOLEAN :
           Preprocess(openOk, readerOk, windowOk, requestOk)
    \/ ProcessBegin
    \/ ProcessMutexLock
    \/ Process
    \/ PostprocessBegin
    \/ PostprocessEnd
    \/ Uninit
    \/ \E requested \in RequestedSizes : SetVsizeBegin(requested)
    \/ \E openOk, readerOk, windowOk, requestOk \in BOOLEAN :
           SetVsizeEnd(openOk, readerOk, windowOk, requestOk)

Callback ==
    \/ \E format \in Formats, acquireOk \in BOOLEAN : CbDeliver(format, acquireOk)
    \/ CbReadCapturing
    \/ CbFilterLock
    \/ \E admit \in BOOLEAN : CbNewFrame(admit)
    \/ \E convertOk \in BOOLEAN : CbConvert(convertOk)
    \/ CbMutexLock
    \/ CbStore
    \/ CbUnlock
    \/ CbUseAfterFree

Next == Host \/ Stop \/ Callback

Spec == Init /\ [][Next]_vars

\* ------------------------------------- the negotiation, on every short list
\* Every entry the platform may list, with sides up to MaxDim.
ScalerEntries ==
    {ScalerEntry(format, width, height, input) :
        format \in Formats, width \in 1..MaxDim, height \in 1..MaxDim,
        input \in BOOLEAN}

\* Every stream configuration list of at most MaxLen entries.
ScalerLists == UNION {[1..n -> ScalerEntries] : n \in 0..MaxLen}

\* set_vsize on a new context with a bound device, past line 521: the
\* requested size is in captureSize and stop() has returned.
InitNeg ==
    /\ requestedSize \in RequestedSizes
    /\ d = [NewContext(TRUE) EXCEPT !.captureSize = requestedSize]
    /\ scaler \in ScalerLists
    /\ ticker = FALSE
    /\ filterLock = "host"
    /\ mutex = "free"
    /\ hpc = "ret"
    /\ hop = "set_vsize"
    /\ cpc = "idle"
    /\ m = NoFrame
    /\ nextId = 1
    /\ outq = << >>
    /\ freed = [f \in Frames |-> 0]
    /\ notified = << >>
    /\ ret = << >>
    /\ fnHist = <<"none", "stop">>
    /\ lastStored = NoFrame
    /\ cbOutcome = "none"
    /\ ticksSince = 0
    /\ crashed = FALSE
    /\ released = << >>
    /\ time = 0
    /\ stamp = 0
    /\ device = Device(1, 90, TRUE)
    /\ out = NoOutput
    /\ cameraIdList = << >>
    /\ webcams = << >>

\* Line 522 alone: android_camera2_capture_choose_best_configurations(d).
Negotiate ==
    /\ hpc = "ret"
    /\ hop = "set_vsize"
    /\ d' = [d EXCEPT !.captureSize =
                 ChooseBestConfigurations(d.captureSize, scaler)]
    /\ hpc' = "negotiated"
    /\ NoTick
    /\ UNCHANGED <<ticker, scaler, released, aside, filterLock, mutex, hop,
                   cpc, m, nextId, outq, freed, notified, ret, fnHist,
                   lastStored, cbOutcome, crashed, requestedSize, ticksSince>>

NextNeg == Negotiate

SpecNeg == InitNeg /\ [][NextNeg]_vars

\* --------------------------- orientation, on every device and rotation hint
\* ACAMERA_SENSOR_ORIENTATION as the platform reports it.
SensorOrientations == {0, 90, 180, 270}

\* Rotation hints the host may pass to set_device_rotation: an int, here
\* every eighth of a turn up to MaxTurns of them either way.
Rotations == {45 * k : k \in (0 - MaxTurns)..MaxTurns}

\* Capture sizes whose swap can be told from the size itself.
OblongSizes == {<<3, 2>>, <<2, 3>>}

\* A filter created for one detected device, with a negotiated capture size
\* and no session.
InitOrient ==
    /\ device \in {Device(1, orientation, back_facing) :
                       orientation \in SensorOrientations,
                       back_facing \in BOOLEAN}
    /\ d \in {[NewContext(TRUE) EXCEPT !.captureSize = size] :
                  size \in OblongSizes}
    /\ out = NoOutput
    /\ scaler = << >>
    /\ ticker = FALSE
    /\ filterLock = "free"
    /\ mutex = "free"
    /\ hpc = "idle"
    /\ hop = "none"
    /\ cpc = "idle"
    /\ m = NoFrame
    /\ nextId = 1
    /\ outq = << >>
    /\ freed = [f \in Frames |-> 0]
    /\ notified = << >>
    /\ ret = << >>
    /\ fnHist = <<"none", "none">>
    /\ lastStored = NoFrame
    /\ cbOutcome = "none"
    /\ requestedSize = ZeroSize
    /\ ticksSince = 0
    /\ crashed = FALSE
    /\ released = << >>
    /\ time = 0
    /\ stamp = 0
    /\ cameraIdList = << >>
    /\ webcams = << >>

\* android_camera2_capture_set_device_rotation.
SetDeviceRotation(rotation) ==
    /\ HostIdle
    /\ d' = [d EXCEPT !.rotation = rotation]
    /\ NoTick
    /\ UNCHANGED <<ticker, scaler, filterLock, mutex, hpc, hop, cpc, m,
                   nextId, outq, freed, notified, ret, fnHist, lastStored,
                   cbOutcome, requestedSize, ticksSince, crashed, released,
                   aside>>

\* android_camera2_capture_get_vsize: no lock is taken.
GetVsize ==
    /\ ~crashed
    /\ LET orientation == GetOrientation(device, d.rotation)
       IN  out' = [op |-> "get_vsize", rotation |-> d.rotation,
                   orientation |-> orientation,
                   size |-> GetVsizeSize(d.captureSize, orientation)]
    /\ NoTick
    /\ UNCHANGED <<d, ticker, scaler, filterLock, mutex, hpc, hop, cpc, m,
                   nextId, outq, freed, notified, ret, fnHist, lastStored,
                   cbOutcome, requestedSize, ticksSince, crashed, released,
                   device, cameraIdList, webcams>>

\* android_camera2_capture_image_to_mblkt on an image of the capture size,
\* which is the size the image reader was created with.
ImageToMblkt ==
    /\ ~crashed
    /\ LET orientation == GetOrientation(device, d.rotation)
       IN  out' = [op |-> "image_to_mblkt", rotation |-> d.rotation,
                   orientation |-> orientation,
                   size |-> ImageToMblktSize(d.captureSize, orientation)]
    /\ NoTick
    /\ UNCHANGED <<d, ticker, scaler, filterLock, mutex, hpc, hop, cpc, m,
                   nextId, outq, freed, notified, ret, fnHist, lastStored,
                   cbOutcome, requestedSize, ticksSince, crashed, released,
                   device, cameraIdList, webcams>>

NextOrient ==
    \/ \E rotation \in Rotations : SetDeviceRotation(rotation)
    \/ GetVsize
    \/ ImageToMblkt

SpecOrient == InitOrient /\ [][NextOrient]_vars

\* ----------------------------------- enumeration, on every short camera list
LensFacings == {"ACAMERA_LENS_FACING_FRONT", "ACAMERA_LENS_FACING_BACK",
                "ACAMERA_LENS_FACING_EXTERNAL"}

\* Every camera the platform may list.
Cameras ==
    {Camera(facing, orientation) :
        facing \in LensFacings, orientation \in {90, 270}} \cup {FailedCamera}

\* Every camera list of at most MaxCameras cameras.
CameraLists == UNION {[1..n -> Cameras] : n \in 0..MaxCameras}

\* The plugin is loaded and the manager calls detect(); no filter exists.
InitDetect ==
    /\ cameraIdList \in CameraLists
    /\ webcams = << >>
    /\ hpc = "detect"
    /\ hop = "detect"
    /\ d = NewContext(FALSE)
    /\ device = Device(1, 90, TRUE)
    /\ out = NoOutput
    /\ scaler = << >>
    /\ ticker = FALSE
    /\ filterLock = "free"
    /\ mutex = "free"
    /\ cpc = "idle"
    /\ m = NoFrame
    /\ nextId = 1
    /\ outq = << >>
    /\ freed = [f \in Frames |-> 0]
    /\ notified = << >>
    /\ ret = << >>
    /\ fnHist = <<"none", "none">>
    /\ lastStored = NoFrame
    /\ cbOutcome = "none"
    /\ requestedSize = ZeroSize
    /\ ticksSince = 0
    /\ crashed = FALSE
    /\ released = << >>
    /\ time = 0
    /\ stamp = 0

\* android_camera2_capture_detect; listOk is whether
\* ACameraManager_getCameraIdList succeeded.
Detect(listOk) ==
    /\ hpc = "detect"
    /\ IF ~listOk
       THEN /\ hpc' = "no_list"
            /\ UNCHANGED webcams
       ELSE /\ hpc' = "detected"
            /\ webcams' = DetectCameras(cameraIdList, webcams)
    /\ NoTick
    /\ UNCHANGED <<d, ticker, scaler, filterLock, mutex, hop, cpc, m, nextId,
                   outq, freed, notified, ret, fnHist, lastStored, cbOutcome,
                   requestedSize, ticksSince, crashed, released, device, out,
                   cameraIdList>>

NextDetect == \E listOk \in BOOLEAN : Detect(listOk)

SpecDetect == InitDetect /\ [][NextDetect]_vars

\* ------------------------------------------------------------------ claims
\* Occurrences of x in a sequence.
Count(seq, x) == Cardinality({i \in 1..Len(seq) : seq[i] = x})

\* The places that hold or have disposed of frame f: the slot, the callback's
\* local m, the output queue, and freemsg.
Holders(f) ==
    (IF d.frame = f THEN 1 ELSE 0) + (IF m = f THEN 1 ELSE 0)
        + Count(outq, f) + freed[f]

AllHandlesNull(c) == \A h \in Handles : ~c[h]

\* C1: the slot holds at most one frame, and it is the most recently stored
\* one; every frame the converter has allocated is in exactly one place (the
\* callback's hands, the slot, the output queue, or freed exactly once), so an
\* overwritten frame is freed once and never also enqueued; and whatever a
\* tick puts on the output queue is the most recently stored frame, which
\* leaves the slot.
C1_FrameSlotLatestWins ==
    /\ [](/\ \A f \in Frames : Holders(f) = IF f < nextId THEN 1 ELSE 0
          /\ d.frame # NoFrame => d.frame = lastStored)
    /\ [][outq' # outq =>
            /\ outq' = Append(outq, lastStored)
            /\ d.frame = lastStored
            /\ d'.frame = NoFrame]_vars

\* C1 witness: frame 1 was overwritten by frame 2 and freed, frame 2 drained.
C1_Witness == freed[1] = 1 /\ outq = <<2>>

\* C2: a frame is stored into the slot only in a state where capturing is
\* true.
C2_StoreOnlyWhileCapturing ==
    [][d'.frame # d.frame /\ d'.frame # NoFrame => d.capturing]_vars

NonZero(size) == Width(size) # 0 /\ Height(size) # 0

\* The frame last stored is pending until the first tick after the store;
\* from that tick on it is on the output queue once and the slot is empty.
TickDrains ==
    lastStored # NoFrame =>
        IF ticksSince = 0
        THEN d.frame = lastStored /\ Count(outq, lastStored) = 0
        ELSE d.frame = NoFrame /\ Count(outq, lastStored) = 1

\* The last step of a stop() that found capture active leaves capturing
\* false and every handle null.
StopReleasesAll ==
    hpc = "stop_device" /\ hpc' = "ret" =>
        ~d'.capturing /\ AllHandlesNull(d')

\* C3, as stated: whenever start() has been called with a bound device and a
\* non-zero size (and the platform gave it its image reader and window),
\* capturing is true; a callback with the matching format whose image was
\* acquired fails to store a frame only when capturing was false or the
\* conversion returned null; the stored frame is enqueued exactly once by
\* the next tick, which empties the slot, and later ticks enqueue nothing;
\* stop() from active capture leaves capturing false and every handle null.
C3_EndToEndAsStated ==
    /\ [](/\ (hpc = "idle" /\ fnHist[2] = "start" /\ d.device
                 /\ NonZero(d.captureSize) /\ d.imageReader /\ d.captureWindow)
             => d.capturing
          /\ cbOutcome # "fps_skip"
          /\ TickDrains)
    /\ [][StopReleasesAll]_vars

\* C3, amended: whenever start() has been called with a bound device and a
\* non-zero size and its image reader and window were created, capturing is
\* true; a callback that comes to the end of its locked section was refused
\* by the frame rate controller, or got null from the conversion, or has
\* stored its frame; the stored frame is enqueued exactly once by the next
\* tick, which empties the slot, and later ticks enqueue nothing; stop() from
\* active capture leaves capturing false and every handle null.
C3_EndToEnd ==
    /\ [](/\ (hpc = "idle" /\ fnHist[2] = "start" /\ d.device
                 /\ NonZero(d.captureSize) /\ d.imageReader /\ d.captureWindow)
             => d.capturing
          /\ cpc = "unlock" =>
                cbOutcome \in {"fps_skip", "convert_null", "stored"}
          /\ cbOutcome = "stored" => lastStored # NoFrame
          /\ TickDrains)
    /\ [][StopReleasesAll]_vars

\* C3 witness: start, one stored frame, two ticks, then postprocess's stop().
C3_Witness ==
    /\ outq = <<1>>
    /\ nextId = 2
    /\ ticksSince = 2
    /\ fnHist = <<"start", "stop">>
    /\ hpc = "ret"
    /\ hop = "postprocess"
    /\ ~d.capturing
    /\ AllHandlesNull(d)

\* C4: a call of stop() that directly follows a call of stop(), or that
\* precedes any call of start(), changes nothing and leaves no handle set.
C4_StopTwiceIsNoOp ==
    [][(hpc = "stop" /\ hpc' # "stop" /\ fnHist[2] \in {"stop", "none"}) =>
          /\ hpc' = "ret"
          /\ d' = d
          /\ AllHandlesNull(d')
          /\ UNCHANGED <<ticker, outq, freed, notified, ret>>]_vars

\* C4 witness: stop() has returned from a call that directly followed one.
C4_Witness == fnHist = <<"stop", "stop">> /\ hpc = "ret"

C6_NoCaptureWithoutDevice == d.capturing => d.cameraDevice

\* C7: whenever a handle is released, capturing is already false.
C7_FlagClearedBeforeRelease ==
    [][(\E h \in Handles : d[h] /\ ~d'[h]) => ~d.capturing /\ ~d'.capturing]_vars

\* C7 witness: stop() is between two releases (window gone, reader not yet).
C7_Witness == hpc = "stop_reader" /\ ~d.captureWindow /\ d.imageReader

\* C8, as stated: while the callback converts an image it holds no lock.
C8_ConvertsWithoutLock ==
    cpc = "convert" => filterLock # "cb" /\ mutex # "cb"

\* C8, amended: the callback holds the filter lock from line 198 to line 216,
\* the conversion included, and the slot mutex only for the store.
C8_ConvertsUnderFilterLock ==
    /\ cpc = "convert" => filterLock = "cb" /\ mutex = "free"
    /\ mutex = "cb" <=> cpc = "store"
    /\ filterLock = "cb" <=>
          cpc \in {"locked", "convert", "lock_mutex", "store", "unlock"}

\* C8 witness: the callback is converting while the host waits to tick.
C8_Witness == cpc = "convert" /\ hpc = "idle" /\ ticker /\ d.frame # NoFrame

\* C9: set_vsize with the current captureSize returns -1 and changes neither
\* the context nor the notifications, and calls neither stop() nor start().
C9_SameSizeIsNoOp ==
    [][(\E r \in RequestedSizes : SetVsizeBegin(r) /\ r = d.captureSize) =>
          /\ ret' = <<-1>>
          /\ d' = d
          /\ notified' = notified
          /\ fnHist' = fnHist
          /\ hpc' = "idle"
          /\ filterLock' = "free"]_vars

\* C9 witness: set_vsize returned -1 while capture was active.
C9_Witness == ret = <<-1>> /\ d.capturing /\ hpc = "idle" /\ d.captureSize = <<2, 2>>

\* Output configurations in the capture format, by position in the list.
Candidates(sc) ==
    {i \in 1..Len(sc) : ~sc[i].input /\ sc[i].format = CaptureFormat}

\* |requested width*height - candidate width*height|.
Distance(size, e) == Abs(Width(size) * Height(size) - e.width * e.height)

\* C10: after negotiation, if the requested size is listed as an output in
\* the capture format the captureSize is the request; otherwise, if any
\* output in the capture format is listed, the captureSize is that of the
\* first listed candidate among those at the least distance.
C10_Negotiation ==
    hpc = "negotiated" =>
        LET cand == Candidates(scaler) IN
        IF \E i \in cand : <<scaler[i].width, scaler[i].height>> = requestedSize
        THEN d.captureSize = requestedSize
        ELSE cand # {} =>
             \E i \in cand :
                /\ d.captureSize = <<scaler[i].width, scaler[i].height>>
                /\ \A j \in cand :
                      /\ Distance(requestedSize, scaler[i])
                            <= Distance(requestedSize, scaler[j])
                      /\ j < i => Distance(requestedSize, scaler[i])
                                     < Distance(requestedSize, scaler[j])

\* C10 witness: 2x2 is asked, 1x2 and 2x3 are equally far, 1x2 is first.
C10_Witness ==
    /\ hpc = "negotiated"
    /\ requestedSize = <<2, 2>>
    /\ scaler = << ScalerEntry(CaptureFormat, 1, 2, FALSE),
                   ScalerEntry(CaptureFormat, 2, 3, FALSE) >>
    /\ d.captureSize = <<1, 2>>

\* C11. Orientation math: for every sensor orientation and every rotation
\* hint set through set_device_rotation, the effective orientation is
\* (sensor orientation - hint) mod 360 on a back-facing device and
\* (sensor orientation + hint) mod 360 on a front-facing one, and it lies
\* in 0..359. (Here % is the mathematical modulo.)
C11_OrientationMath ==
    out.op # "none" =>
        /\ out.orientation \in 0..359
        /\ out.orientation =
               (IF device.back_facing THEN device.orientation - out.rotation
                ELSE device.orientation + out.rotation) % 360

\* The width and height of a size exchanged.
Swapped(size) == <<Height(size), Width(size)>>

\* C12 as stated. The size get_vsize reports and the size of the converted
\* frame are the capture size swapped if and only if the effective
\* orientation is 90 or 270, and the capture size itself otherwise.
C12_SwapOnlyAt90And270 ==
    out.op # "none" =>
        IF out.orientation \in {90, 270}
        THEN out.size = Swapped(d.captureSize)
        ELSE out.size = d.captureSize

\* C12. The size get_vsize reports and the size of the converted frame are
\* the capture size swapped if and only if the effective orientation is not
\* a multiple of 180, and the capture size itself otherwise.
C12_SwapUnlessHalfTurn ==
    out.op # "none" =>
        IF out.orientation % 180 # 0
        THEN out.size = Swapped(d.captureSize)
        ELSE out.size = d.captureSize

\* Both outputs are reached swapped at a quarter turn the other way.
C12_Witness ==
    /\ out.op = "image_to_mblkt"
    /\ out.orientation = 270
    /\ out.size = Swapped(d.captureSize)

\* Whether camera i of the list is back-facing, as detect() classes it.
IsBack(ids, i) == ids[i].facing = "ACAMERA_LENS_FACING_BACK"

\* The places, in enumeration order, of the cameras that are the first of
\* their facing among those whose characteristics could be read.
FirstOfFacing(ids) ==
    SelectSeq([i \in 1..Len(ids) |-> i],
              LAMBDA i : /\ ids[i].status = "ACAMERA_OK"
                         /\ \A j \in 1..(i - 1) :
                                ids[j].status = "ACAMERA_OK"
                                    => IsBack(ids, j) # IsBack(ids, i))

\* The camera ids of the manager's list, head first.
RegisteredIds == [k \in 1..Len(webcams) |-> webcams[k].camId]

Reverse(seq) == [k \in 1..Len(seq) |-> seq[Len(seq) + 1 - k]]

\* At most one device of each facing is registered, each with the facing
\* and orientation of the camera it was made from.
OnePerFacing ==
    /\ \A k, l \in 1..Len(webcams) :
           webcams[k].back_facing = webcams[l].back_facing => k = l
    /\ \A k \in 1..Len(webcams) :
           /\ webcams[k].back_facing = IsBack(cameraIdList, webcams[k].camId)
           /\ webcams[k].orientation =
                  cameraIdList[webcams[k].camId].orientation

\* C13 as stated. After detect() the registry holds at most one device per
\* facing, each the first of its facing in enumeration order, and the
\* registered devices are in enumeration order.
C13_KeepsEnumerationOrder ==
    hpc = "detected" =>
        /\ OnePerFacing
        /\ RegisteredIds = FirstOfFacing(cameraIdList)

\* C13. After detect() the registry holds at most one device per facing,
\* each the first of its facing in enumeration order, and the registered
\* devices are in reverse enumeration order: the one found last is the head.
C13_ReversesEnumerationOrder ==
    hpc = "detected" =>
        /\ OnePerFacing
        /\ RegisteredIds = Reverse(FirstOfFacing(cameraIdList))

\* The cameras [back, front, back, back] were enumerated, and the registry
\* holds the first front-facing one, then the first back-facing one.
C13_Witness ==
    /\ hpc = "detected"
    /\ Len(cameraIdList) = 4
    /\ \A i \in 1..4 : cameraIdList[i].status = "ACAMERA_OK"
    /\ [i \in 1..4 |-> IsBack(cameraIdList, i)] = <<TRUE, FALSE, TRUE, TRUE>>
    /\ RegisteredIds = <<2, 1>>

\* The step on which set_vsize returns past its comparison.
SetVsizeReturns == hop = "set_vsize" /\ hpc = "ret" /\ hpc' = "idle"

\* C14. A set_vsize with a size different from the current one has put the
\* requested size in the context and stopped the session when it negotiates;
\* it then starts, notifies the host exactly once and returns 0. The size
\* notified is the negotiated size, which is the capture size of the context
\* and so of the session if one was restarted. Nothing else notifies.
C14_RenegotiationNotifiesOnce ==
    [][ /\ notified' # notified => SetVsizeReturns
        /\ SetVsizeReturns =>
               /\ fnHist[2] = "stop"
               /\ ~d.capturing
               /\ d.captureSize = requestedSize
               /\ d'.captureSize =
                      ChooseBestConfigurations(requestedSize, scaler)
               /\ fnHist' = <<"stop", "start">>
               /\ notified' = Append(notified, d'.captureSize)
               /\ ret' = <<0>> ]_vars

\* Two renegotiations were notified, the second for a request of 3x3 that
\* was negotiated to 3x2, and the session is capturing at that size.
C14_Witness ==
    /\ hpc = "idle"
    /\ Len(notified) = 2
    /\ notified[2] = <<3, 2>>
    /\ d.capturing
    /\ d.captureSize = <<3, 2>>
    /\ ret = <<0>>

\* C15. Between operations of the host (no hook or method is running),
\* capturing is true only if the capture width and height are both non-zero.
C15_ZeroSizeSuppressesStart ==
    (hpc = "idle" /\ d.capturing) => NonZero(d.captureSize)

\* Two renegotiations ended on (0,0) and the filter was attached to a ticker:
\* neither set_vsize nor preprocess started a session.
C15_Witness ==
    /\ hpc = "idle"
    /\ ticker
    /\ notified = <<ZeroSize, ZeroSize>>
    /\ d.captureSize = ZeroSize
    /\ ~d.capturing

\* C16. The output queue changes only by a tick that finds a frame pending:
\* the tick puts that frame at the tail, stamps it with the ticker time it
\* read times 90 and empties the slot; a tick that empties the slot has
\* enqueued what was in it. In every state the queue holds no frame twice
\* and holds the frames in the order in which they were stored.
C16_TickDrainsSlot ==
    /\ [](\A i, j \in 1..Len(outq) : i < j => outq[i] < outq[j])
    /\ [][ /\ outq' # outq =>
                 /\ d.frame # NoFrame
                 /\ outq' = Append(outq, d.frame)
                 /\ d'.frame = NoFrame
                 /\ stamp' = time' * 90
           /\ (d.frame # NoFrame /\ d'.frame = NoFrame) =>
                 outq' = Append(outq, d.frame)
           /\ (d.frame = NoFrame /\ d'.frame = NoFrame) => outq' = outq ]_vars

\* Two frames were enqueued, the second on a tick at time 2, and the slot
\* is empty.
C16_Witness ==
    /\ Len(outq) = 2
    /\ time = 2
    /\ stamp = 180
    /\ d.frame = NoFrame

\* C17. In every state where capturing is true the capture-session handle
\* is non-null.
C17_CapturingHasSession == d.capturing => d.captureSession

\* C18. When stop() returns, whether by its early return or after its last
\* release, no resource handle of the context is set.
C18_StopReleasesPartialSession ==
    [][ ((hpc = "stop" \/ hpc = "stop_device") /\ hpc' = "ret")
            => AllHandlesNull(d') ]_vars

\* The place of x in a sequence that holds it once.
Place(seq, x) == CHOOSE i \in 1..Len(seq) : seq[i] = x

\* The release steps in the order the claim lists them; "remove" is the
\* removal of the session output from the output container.
ReleaseOrder ==
    <<"captureSession", "cameraCaptureOutputTarget", "captureRequest", "remove",
      "sessionCaptureOutput", "captureWindow", "imageReader",
      "captureSessionOutputContainer", "cameraDevice">>

\* What start() has set whenever it set capturing.
SetWhenActive ==
    {"cameraCaptureOutputTarget", "remove", "sessionCaptureOutput",
     "captureWindow", "imageReader", "captureSessionOutputContainer"}

\* C19. What a stop() has released so far is in the listed order (session,
\* output target, capture request, removal from the container, session
\* output, native window, image reader, output container, device), nothing
\* is released twice, and a released handle is null. A stop() that found
\* capture active has, when it returns, released all that start() had set
\* and left every handle null.
C19_ReleaseOrder ==
    /\ [](\A i, j \in 1..Len(released) :
             i < j => Place(ReleaseOrder, released[i])
                          < Place(ReleaseOrder, released[j]))
    /\ [](\A i \in 1..Len(released) :
             released[i] \in Handles => ~d[released[i]])
    /\ [][ (hpc = "stop_device" /\ hpc' = "ret") =>
              /\ AllHandlesNull(d')
              /\ SetWhenActive \subseteq {released'[i] : i \in 1..Len(released')}
         ]_vars

\* A stop() has returned after releasing every handle but the session,
\* which start() never creates.
C19_Witness ==
    /\ hpc = "ret"
    /\ released = SelectSeq(ReleaseOrder, LAMBDA x : x # "captureSession")
    /\ AllHandlesNull(d)

\* C20 as stated. For every two handles that start() acquires one before the
\* other, a stop() that releases both releases the later-acquired one first.
C20_ReverseAcquisitionOrder ==
    \A i, j \in 1..Len(released) :
        (i < j /\ released[i] # "remove" /\ released[j] # "remove")
            => Place(AcquisitionOrder, released[i])
                   > Place(AcquisitionOrder, released[j])

\* The handles of the capture output, which stop() releases first.
OutputHandles ==
    {"cameraCaptureOutputTarget", "captureRequest", "sessionCaptureOutput"}

\* C20. For every two handles that start() acquires one before the other,
\* a stop() that releases both releases the later-acquired one first, unless
\* both are among the output target, the capture request and the session
\* output: those it releases in the order of their acquisition.
C20_ReverseExceptOutputs ==
    \A i, j \in 1..Len(released) :
        (i < j /\ released[i] # "remove" /\ released[j] # "remove")
            => IF released[i] \in OutputHandles /\ released[j] \in OutputHandles
               THEN Place(AcquisitionOrder, released[i])
                        < Place(AcquisitionOrder, released[j])
               ELSE Place(AcquisitionOrder, released[i])
                        > Place(AcquisitionOrder, released[j])

\* A stop() is past the outputs and the native window: the three outputs
\* went in acquisition order, the window after them.
C20_Witness ==
    /\ hpc = "stop_reader"
    /\ released = <<"cameraCaptureOutputTarget", "captureRequest", "remove",
                    "sessionCaptureOutput", "captureWindow">>

\* The ways a callback ends without a frame that the claim names.
NoFrameOutcomes == {"wrong_format", "acquire_failed", "convert_null"}

\* C21. The step on which a callback ends on a wrong format, a failed
\* acquisition or a null conversion leaves the context (the slot with any
\* pending frame, capturing, every handle) as it was, allocates and stores
\* no frame, frees none and enqueues none; and so does every step of a
\* callback other than the store.
C21_NoFrameCallbackChangesNothing ==
    [][ /\ (cbOutcome' # cbOutcome /\ cbOutcome' \in NoFrameOutcomes) =>
               UNCHANGED <<d, outq, freed, m, nextId, lastStored>>
        /\ (cpc' # cpc /\ cpc # "store") => UNCHANGED <<d, outq, freed>>
      ]_vars

\* A conversion returned null while a frame was pending and capture was on:
\* the frame is still in the slot.
C21_Witness ==
    /\ cbOutcome = "convert_null"
    /\ cpc = "unlock"
    /\ d.frame # NoFrame
    /\ d.frame = lastStored
    /\ d.capturing

\* C22. A callback that holds the filter lock while f->ticker is null
\* returns without reading through it: the process does not fault there.
C22_NullTickerNotDereferenced ==
    (cpc = "locked" /\ ~ticker) => ~crashed

\* C23. The slot is written only with both locks held, and whoever holds
\* the slot mutex holds the filter lock: the filter lock is taken first and
\* released last, and is never awaited with the mutex held. No state is
\* reached, short of a fault and of the filter's destruction, in which no
\* thread can take a step.
C23_DeadlockFree ==
    /\ cpc = "store" => (filterLock = "cb" /\ mutex = "cb")
    /\ hpc = "drain" => (filterLock = "host" /\ mutex = "host")
    /\ mutex # "free" => filterLock = mutex
    /\ (~crashed /\ hpc # "uninit") => ENABLED Next

\* A tick holds both locks while a callback that saw capturing set waits
\* for the filter lock.
C23_Witness ==
    /\ hpc = "drain"
    /\ filterLock = "host"
    /\ mutex = "host"
    /\ cpc = "wait_lock"
    /\ d.frame # NoFrame

\* C24. After uninit every frame that was stored in the slot has been put on
\* the output queue or freed: none is left in the deleted context.
C24_NoFrameLeftAtUninit ==
    hpc = "uninit" =>
        /\ d.frame = NoFrame
        /\ \A f \in Frames :
               (f < nextId /\ m # f) => Count(outq, f) + freed[f] = 1

\* C25. When the platform lists no output configuration in the capture
\* format, a set_vsize that gets past its comparison leaves the capture size
\* (0,0), capturing false and every handle as it was, returns 0 and notifies
\* the host with (0,0).
C25_NoConfigurationSuppressesStart ==
    [][ (SetVsizeReturns /\ Candidates(scaler) = {}) =>
            /\ d'.captureSize = ZeroSize
            /\ ~d'.capturing
            /\ \A h \in Handles : d'[h] = d[h]
            /\ ret' = <<0>>
            /\ notified' = Append(notified, ZeroSize) ]_vars

\* One set_vsize on a detached filter whose platform lists no candidate has
\* returned 0 and notified (0,0); nothing was acquired.
C25_Witness ==
    /\ Candidates(scaler) = {}
    /\ hpc = "idle"
    /\ ~ticker
    /\ fnHist = <<"stop", "start">>
    /\ notified = <<ZeroSize>>
    /\ ret = <<0>>
    /\ d.captureSize = ZeroSize
    /\ ~d.capturing
    /\ AllHandlesNull(d)

=============================================================================
